---- MODULE Spec2Model ----
(***************************************************************************)
(* Model of app.py (ldap-passwd-webui): the POST handler post_index, the   *)
(* strength validator password_is_strong, the orchestrator                 *)
(* change_passwords, the classifier change_password and the two adapters   *)
(* change_password_ldap / change_password_ad, run against directory        *)
(* backends that hold one password per user.                               *)
(*                                                                         *)
(* Strings are sequences of one-character strings.  Each request is a      *)
(* process r with its own frame req[r]; the backends, the log and the      *)
(* configuration are shared.                                               *)
(***************************************************************************)
EXTENDS Integers, Sequences, FiniteSets, TLC

VARIABLES CONF, req, stored, initial, LOG

vars == <<CONF, req, stored, initial, LOG>>

(***************************************************************************)
(* Bounds of the model.                                                    *)
(***************************************************************************)
MaxBackends == 3

\* The same bound in the specification with fairness.
MaxLiveBackends == 2

\* Longest password the validator is applied to exhaustively.
MaxPwLen == 3

\* Most backend sections where the steps inside one adapter invocation are
\* looked at.
MaxAdapterBackends == 2

\* Most backend sections when two requests run concurrently.
MaxConcBackends == 2

(***************************************************************************)
(* Values.  A string is a sequence of one-character strings (or of words,  *)
(* for messages).  None is the value Python formats as "None".             *)
(***************************************************************************)
None == <<"None">>

\* Form values of the username field: a name, or None when the field is absent.
Usernames == {<<"a", "l">>, None}

\* Password strings the requests are drawn from.
PwOld == <<"o", "L", "1">>

PwNew == <<"n", "E", "2", "!">>

PwWeak == <<"n", "e">>

(***************************************************************************)
(* str.lower / str.upper on the characters the model uses.                 *)
(***************************************************************************)
LowerLetters == <<"a", "b", "c", "d", "e", "f", "g", "h", "i", "j", "k", "l", "m",
                  "n", "o", "p", "q", "r", "s", "t", "u", "v", "w", "x", "y", "z">>

UpperLetters == <<"A", "B", "C", "D", "E", "F", "G", "H", "I", "J", "K", "L", "M",
                  "N", "O", "P", "Q", "R", "S", "T", "U", "V", "W", "X", "Y", "Z">>

LowerChar(c) ==
    IF \E k \in 1..Len(UpperLetters) : UpperLetters[k] = c
    THEN LowerLetters[CHOOSE k \in 1..Len(UpperLetters) : UpperLetters[k] = c]
    ELSE c

UpperChar(c) ==
    IF \E k \in 1..Len(LowerLetters) : LowerLetters[k] = c
    THEN UpperLetters[CHOOSE k \in 1..Len(LowerLetters) : LowerLetters[k] = c]
    ELSE c

lower(s) == [k \in 1..Len(s) |-> LowerChar(s[k])]

upper(s) == [k \in 1..Len(s) |-> UpperChar(s[k])]

Digits == {"0", "1", "2", "3", "4", "5", "6", "7", "8", "9"}

\* The punctuation of line 165; "grave" stands for the grave accent character.
Specials == {"!", "\"", "#", "$", "%", "&", "'", "(", ")", "*", "+", ",", "-",
             ".", "/", ":", ";", "<", "=", ">", "?", "@", "[", "\\", "]", "^",
             "_", "grave", "{", "|", "}", "~"}

Whitespace == {" ", "\n", "\t"}

\* str.isspace: non-empty and every character is whitespace.
isspace(s) == Len(s) > 0 /\ \A k \in 1..Len(s) : s[k] \in Whitespace

\* str.rstrip: drop the trailing whitespace.
RECURSIVE rstrip(_)
rstrip(s) ==
    IF Len(s) > 0 /\ s[Len(s)] \in Whitespace
    THEN rstrip(SubSeq(s, 1, Len(s) - 1))
    ELSE s

\* `pattern in text` on strings: pattern is a contiguous substring of text.
Contains(text, pattern) ==
    \E k \in 0..(Len(text) - Len(pattern)) :
        SubSeq(text, k + 1, k + Len(pattern)) = pattern

(***************************************************************************)
(* Log records.  A record keeps what the format string of its source line  *)
(* puts into the message: the backend key, the username, a class name and  *)
(* a text, each empty when the format has no such argument.                *)
(***************************************************************************)
LogEntry(level, line, backend, username, cls, text) ==
    [level |-> level, line |-> line, backend |-> backend,
     username |-> username, cls |-> cls, text |-> text]

(***************************************************************************)
(* password_is_strong.  ret is "True", "False", or "raise" when the        *)
(* dictionary file cannot be opened (open() raises); logs are the          *)
(* warnings it writes.  present says whether CONF has a password_checker   *)
(* section; min_length < 0 stands for an absent min_length option.         *)
(***************************************************************************)
DefaultMinLength == 8

GetInt(option, default) == IF option < 0 THEN default ELSE option

\* Variant of DictionaryHit: the pattern is compared as written in the file.
DictionaryHitCaseSensitive(lines, password) ==
    \E k \in 1..Len(lines) :
        /\ ~isspace(lines[k])
        /\ Contains(lower(password), rstrip(lines[k]))

\* Lines 170-176: some line of the file that is not whitespace only, stripped
\* on the right and lower-cased, occurs in the lower-cased password.
DictionaryHit(lines, password) ==
    \E k \in 1..Len(lines) :
        /\ ~isspace(lines[k])
        /\ Contains(lower(password), lower(rstrip(lines[k])))

Verdict(ret, logs) == [ret |-> ret, logs |-> logs]

\* Line 154.
TooShort(conf, password) ==
    Len(password) < GetInt(conf.min_length, DefaultMinLength)

\* Variant of SingleCase: both comparisons must hold.
SingleCaseBoth(password) ==
    lower(password) = password /\ upper(password) = password

\* Line 159.
SingleCase(password) ==
    lower(password) = password \/ upper(password) = password

\* Line 162.
HasDigit(password) == \E k \in 1..Len(password) : password[k] \in Digits

\* Line 165.
HasSpecial(password) == \E k \in 1..Len(password) : password[k] \in Specials

\* Variant of DictionaryCheck: a dictionary file that cannot be opened is
\* taken as an empty dictionary.
DictionaryCheckMissingFileSkipped(conf, password) ==
    IF conf.file_exists /\ DictionaryHit(conf.dictionary_file, password)
    THEN Verdict("False",
                 <<LogEntry("WARNING", 175, <<>>, <<>>, "", <<"in dictionary">>)>>)
    ELSE Verdict("True", <<>>)

\* Lines 169-178: open() raises when the file is missing.
DictionaryCheck(conf, password) ==
    IF ~conf.file_exists THEN Verdict("raise", <<>>)
    ELSE IF DictionaryHit(conf.dictionary_file, password)
         THEN Verdict("False",
                      <<LogEntry("WARNING", 175, <<>>, <<>>, "", <<"in dictionary">>)>>)
         ELSE Verdict("True", <<>>)

password_is_strong(present, conf, password) ==
    IF ~present THEN Verdict("True", <<>>)
    ELSE IF TooShort(conf, password)
         THEN Verdict("False",
                      <<LogEntry("WARNING", 155, <<>>, <<>>, "", <<"too short">>)>>)
    ELSE IF conf.mixed_case_required /\ SingleCase(password)
         THEN Verdict("False", <<>>)
    ELSE IF conf.digit_required /\ ~HasDigit(password)
         THEN Verdict("False", <<>>)
    ELSE IF conf.special_required /\ ~HasSpecial(password)
         THEN Verdict("False", <<>>)
    ELSE IF conf.dictionary_check_enabled
         THEN DictionaryCheck(conf, password)
    ELSE Verdict("True", <<>>)

(***************************************************************************)
(* Exceptions.  cls is the Python class, msg the text str(e) gives (a      *)
(* sequence of words), kind the except clause of change_password that      *)
(* built an Error ("" for an exception that is not an Error).              *)
(***************************************************************************)
Exc(cls, msg, kind) == [cls |-> cls, msg |-> msg, kind |-> kind]

NoExc == Exc("", <<>>, "")

\* The superclass of each exception class the model raises (ldap3.core.exceptions
\* for the LDAP classes, Python for the others).
Parent(cls) ==
    CASE cls = "LDAPBindError" -> "LDAPExceptionError"
      [] cls = "LDAPUserNameIsMandatoryError" -> "LDAPExceptionError"
      [] cls = "LDAPSocketOpenError" -> "LDAPCommunicationError"
      [] cls = "LDAPSocketReceiveError" -> "LDAPCommunicationError"
      [] cls = "LDAPCommunicationError" -> "LDAPExceptionError"
      [] cls = "LDAPExceptionError" -> "LDAPException"
      [] cls = "LDAPInvalidCredentialsResult" -> "LDAPOperationResult"
      [] cls = "LDAPConstraintViolationResult" -> "LDAPOperationResult"
      [] cls = "LDAPUnwillingToPerformResult" -> "LDAPOperationResult"
      [] cls = "LDAPNoSuchObjectResult" -> "LDAPOperationResult"
      [] cls = "LDAPOperationResult" -> "LDAPException"
      [] cls = "LDAPException" -> "Exception"
      [] cls = "TypeError" -> "Exception"
      [] cls = "Error" -> "Exception"
      [] OTHER -> ""

RECURSIVE IsInstance(_, _)
IsInstance(cls, base) ==
    IF cls = "" THEN FALSE
    ELSE IF cls = base THEN TRUE
    ELSE IsInstance(Parent(cls), base)

\* The classes raised by the directory client that are failures of the backend
\* protocol (every LDAP exception).
IsBackendProtocolFailure(cls) == IsInstance(cls, "LDAPException")

Marker == "check_password_restrictions: "

\* msg.split(Marker)[-1]: the words after the last Marker.
RECURSIVE AfterLastMarker(_)
AfterLastMarker(msg) ==
    IF \E k \in 1..Len(msg) : msg[k] = Marker
    THEN AfterLastMarker(SubSeq(msg,
                                1 + (CHOOSE k \in 1..Len(msg) : msg[k] = Marker
                                        /\ \A j \in 1..(k - 1) : msg[j] # Marker),
                                Len(msg)))
    ELSE msg

\* str.capitalize on the words the model uses: first character upper, rest lower.
CapitalizeWord(w) ==
    CASE w = "password is too short" -> "Password is too short"
      [] w = "Constraint violation" -> "Constraint violation"
      [] w = "0000052D: " -> "0000052d: "
      [] OTHER -> w

LowerWord(w) ==
    CASE w = "Constraint violation" -> "constraint violation"
      [] w = "0000052D: " -> "0000052d: "
      [] OTHER -> w

capitalize(msg) ==
    [k \in 1..Len(msg) |-> IF k = 1 THEN CapitalizeWord(msg[k]) ELSE LowerWord(msg[k])]

MsgInvalidCredentials == <<"Username or password is incorrect!">>

MsgConnection == <<"Unable to connect to the remote server.">>

MsgProtocol ==
    <<"Encountered an unexpected error while communicating with the remote server.">>

(***************************************************************************)
(* The except clauses of change_password, tried in order.  caught is FALSE *)
(* when no clause matches and the exception leaves change_password as it   *)
(* is; err is the Error raised in its place; logs what the clause logs.    *)
(***************************************************************************)
Classified(caught, err, logs) == [caught |-> caught, err |-> err, logs |-> logs]

\* Variant of Classify: the socket-open and the general clause hand the text of
\* the exception to the user, as the constraint-violation clause does.
ClassifyLeaky(x) ==
    IF \/ IsInstance(x.cls, "LDAPBindError")
       \/ IsInstance(x.cls, "LDAPInvalidCredentialsResult")
       \/ IsInstance(x.cls, "LDAPUserNameIsMandatoryError")
    THEN Classified(TRUE, Exc("Error", MsgInvalidCredentials, "InvalidCredentials"), <<>>)
    ELSE IF IsInstance(x.cls, "LDAPConstraintViolationResult")
    THEN Classified(TRUE,
                    Exc("Error", capitalize(AfterLastMarker(x.msg)), "PolicyRejected"),
                    <<>>)
    ELSE IF IsInstance(x.cls, "LDAPSocketOpenError")
    THEN Classified(TRUE, Exc("Error", x.msg, "ConnectionFailure"),
                    <<LogEntry("ERROR", 106, <<>>, <<>>, x.cls, x.msg)>>)
    ELSE IF IsInstance(x.cls, "LDAPExceptionError")
    THEN Classified(TRUE, Exc("Error", x.msg, "ProtocolError"),
                    <<LogEntry("ERROR", 110, <<>>, <<>>, x.cls, x.msg)>>)
    ELSE Classified(FALSE, x, <<>>)

Classify(x) ==
    IF \/ IsInstance(x.cls, "LDAPBindError")
       \/ IsInstance(x.cls, "LDAPInvalidCredentialsResult")
       \/ IsInstance(x.cls, "LDAPUserNameIsMandatoryError")
    THEN Classified(TRUE, Exc("Error", MsgInvalidCredentials, "InvalidCredentials"), <<>>)
    ELSE IF IsInstance(x.cls, "LDAPConstraintViolationResult")
    THEN Classified(TRUE,
                    Exc("Error", capitalize(AfterLastMarker(x.msg)), "PolicyRejected"),
                    <<>>)
    ELSE IF IsInstance(x.cls, "LDAPSocketOpenError")
    THEN Classified(TRUE, Exc("Error", MsgConnection, "ConnectionFailure"),
                    <<LogEntry("ERROR", 106, <<>>, <<>>, x.cls, x.msg)>>)
    ELSE IF IsInstance(x.cls, "LDAPExceptionError")
    THEN Classified(TRUE, Exc("Error", MsgProtocol, "ProtocolError"),
                    <<LogEntry("ERROR", 110, <<>>, <<>>, x.cls, x.msg)>>)
    ELSE Classified(FALSE, x, <<>>)

(***************************************************************************)
(* Configuration.  CONF.sections is the ordered list of section names,     *)
(* CONF.type the `type` option of each backend section ("" when absent),   *)
(* CONF.checker the options of the password_checker section.               *)
(***************************************************************************)
KeyHtml == <<"html">>

KeyChecker == <<"password_checker">>

\* The name of the i-th backend section: "ldap", "ldap:2", "ldap:3", ...
BackendKey(i) == IF i = 1 THEN <<"ldap">> ELSE <<"ldap", ":", ToString(i)>>

\* key == 'ldap' or key.startswith('ldap:')
IsBackendKey(key) ==
    \/ key = <<"ldap">>
    \/ (Len(key) >= 2 /\ key[1] = "ldap" /\ key[2] = ":")

\* The generator of lines 73-74: the backend sections, in declared order.
BackendKeys(conf) == SelectSeq(conf.sections, IsBackendKey)

HasChecker(conf) == \E k \in 1..Len(conf.sections) : conf.sections[k] = KeyChecker

Checker(min, mixed, digit, special, dict, exists, lines) ==
    [min_length |-> min, mixed_case_required |-> mixed, digit_required |-> digit,
     special_required |-> special, dictionary_check_enabled |-> dict,
     file_exists |-> exists, dictionary_file |-> lines]

\* The policies the configurations are drawn from: length 3 with a digit, the
\* default length, and a dictionary check whose file is missing.
Checkers ==
    {Checker(3, FALSE, TRUE, FALSE, FALSE, FALSE, <<>>),
     Checker(-1, FALSE, FALSE, FALSE, FALSE, FALSE, <<>>),
     Checker(2, FALSE, FALSE, FALSE, TRUE, FALSE, <<>>)}

BackendKeyList(n) == [i \in 1..n |-> BackendKey(i)]

BackendKeySet(n) == {BackendKey(i) : i \in 1..n}

\* The configurations with n backend sections.  Section html always exists
\* (line 198 reads it at start-up); password_checker is optional.
NoChecker == Checker(-1, FALSE, FALSE, FALSE, FALSE, FALSE, <<>>)

Sections(pre, n) == <<KeyHtml>> \o pre \o BackendKeyList(n) \o <<<<"server">>>>

Configs(n) ==
    {[sections |-> Sections(<<KeyChecker>>, n), type |-> t, checker |-> c] :
        t \in [BackendKeySet(n) -> {"", "ad"}], c \in Checkers}
    \cup
    {[sections |-> Sections(<<>>, n), type |-> t, checker |-> NoChecker] :
        t \in [BackendKeySet(n) -> {"", "ad"}]}

AdDomain == <<"c", "o">>

(***************************************************************************)
(* The frame of one request: the form fields, the locals of                *)
(* change_passwords (changed, the loop positions it and rit, e and e2),    *)
(* the arguments and locals of the adapter invocation in progress, the     *)
(* number of connections it holds open, the exception in flight, and the   *)
(* response of post_index.  entered says that change_passwords was called; *)
(* trace records the adapter invocations issued so far and ops the         *)
(* directory operations of the latest of them; initial keeps the passwords *)
(* the backends held before any request.                                   *)
(***************************************************************************)
Frame(username, old_pass, new_pass, confirm) ==
    [pc |-> "post_index",
     username |-> username, old_pass |-> old_pass, new_pass |-> new_pass,
     confirm |-> confirm,
     changed |-> <<>>, it |-> 1, e |-> NoExc, e2 |-> NoExc, rit |-> 1,
     phase |-> "", a_key |-> <<>>, a_old |-> <<>>, a_new |-> <<>>,
     user |-> <<>>, user_dn |-> <<>>, open |-> 0, exc |-> NoExc, raw |-> NoExc,
     response |-> [status |-> "", msg |-> <<>>],
     entered |-> FALSE, trace |-> <<>>, ops |-> <<>>]

Frames ==
    {Frame(u, PwOld, n, c) : u \in Usernames, n \in {PwNew, PwWeak}, c \in {PwNew, PwWeak}}

\* The requests the server can be handling at once; a request that is not
\* submitted stays "absent".
RunIds == {1, 2}

Absent == [Frame(None, PwOld, PwNew, PwNew) EXCEPT !.pc = "absent"]

\* The requests of set R are submitted to a server whose configuration has at
\* most N backend sections.
InitOf(R, N) ==
    \E n \in 0..N :
        /\ CONF \in Configs(n)
        /\ req \in {q \in [RunIds -> Frames \cup {Absent}] :
                        \A r \in RunIds : q[r] = Absent <=> r \notin R}
        /\ stored \in [BackendKeySet(n) -> {PwOld, PwNew}]
        /\ initial = stored
        /\ LOG = <<>>

InitWith(R) == InitOf(R, MaxBackends)

Init == InitWith({1})

(***************************************************************************)
(* Helpers of the actions.                                                 *)
(***************************************************************************)
Set(r, f) == req' = [req EXCEPT ![r] = f]

\* post_index returns: a page with a success or error alert, or ("crash") an
\* exception it does not catch leaves the handler.
Respond(f, status, msg) ==
    [f EXCEPT !.pc = "done", !.response = [status |-> status, msg |-> msg]]

MsgConfirm == <<"Password doesn't match the confirmation!">>

MsgWeak == <<"Password does not meet complexity/strength requirements!">>

MsgChanged == <<"Password has been changed">>

\* One adapter invocation recorded in trace.
Invocation(phase, key, old, new) ==
    [phase |-> phase, key |-> key, old |-> old, new |-> new, result |-> "running",
     raw |-> NoExc, err |-> NoExc]

\* One directory operation recorded in ops.
Op(key, op, user, p1, p2) == [key |-> key, op |-> op, user |-> user, p1 |-> p1, p2 |-> p2]

\* change_password(CONF[key], username, old, new) is called.
Call(f, phase, key, old, new) ==
    [f EXCEPT !.pc = "change_password", !.phase = phase, !.a_key = key,
              !.a_old = old, !.a_new = new, !.user = <<>>, !.user_dn = <<>>,
              !.exc = NoExc, !.raw = NoExc, !.ops = <<>>,
              !.trace = Append(@, Invocation(phase, key, old, new))]

\* The adapter invocation in progress ends with result ("ok", "Error" or
\* "exception"); raw is the exception raised inside the adapter and err the
\* one that left change_password.
Ended(f, result) ==
    [f EXCEPT !.trace = [@ EXCEPT ![Len(@)] = [@ EXCEPT !.result = result,
                                                        !.raw = f.raw,
                                                        !.err = f.exc]]]

\* An exception x is raised inside the adapter and reaches the except clauses
\* of change_password.
Raise(f, x) == [f EXCEPT !.exc = x, !.raw = x, !.pc = "except"]

\* The with statement releases the connection, when its body raises and when
\* it completes.
\* Variant of ExitOnException: the connection is left open when the body raises.
ExitOnExceptionLeak(n) == n

ExitOnException(n) == n - 1

\* Variant of ExitNormally: the connection stays open after the with block.
ExitNormallyLeak(n) == n

ExitNormally(n) == n - 1

\* line 119: the second connection of the generic variant is made as the
\* resolved identity with old_pass.
LdapCredentials(f) == <<f.user_dn, f.a_old>>

\* line 121: modify_password(user_dn, old_pass, new_pass).
LdapModifyArgs(f) == <<f.user_dn, f.a_old, f.a_new>>

\* Variant of AdPrincipalName: the username without the domain suffix.
AdPrincipalBare(f) == f.username

\* line 125: username + '@' + conf['ad_domain'].
AdPrincipalName(f) == f.username \o <<"@">> \o AdDomain

\* Variant of AdModifyArgs: the order of the generic variant.
AdModifyArgsOldFirst(f) == <<f.user_dn, f.a_old, f.a_new>>

\* line 130: modify_password(user_dn, new_pass, old_pass).
AdModifyArgs(f) == <<f.user_dn, f.a_new, f.a_old>>

\* The distinguished name the search returns for a user.
DN(username) == <<"uid=">> \o username

(***************************************************************************)
(* The directory backends.  A backend holds one password for the user; a   *)
(* simple bind succeeds when the password given is the one it holds, and a *)
(* modify-password operation replaces it when the old password given is    *)
(* the one it holds.  Any operation can also fail for reasons of the       *)
(* backend or the network.                                                 *)
(***************************************************************************)
SocketDetails == {<<"timed out">>, <<"connection refused">>}

ConnectFailures == {Exc("LDAPSocketOpenError", d, "") : d \in SocketDetails}

BindFailures ==
    {Exc("LDAPInvalidCredentialsResult", <<"invalidCredentials">>, ""),
     Exc("LDAPBindError", <<"unable to bind">>, "")}

SearchFailures == {Exc("LDAPNoSuchObjectResult", <<"noSuchObject">>, "")}

ModifyFailures ==
    {Exc("LDAPConstraintViolationResult",
         <<"0000052D: ", Marker, "password is too short">>, ""),
     Exc("LDAPUnwillingToPerformResult", <<"unwillingToPerform">>, ""),
     Exc("LDAPSocketReceiveError", <<"error receiving data">>, "")}

\* What the microsoft extended operation raises when handed no identity.
NoIdentityFailures ==
    {Exc("TypeError", <<"NoneType">>, ""),
     Exc("LDAPExceptionError", <<"invalid dn">>, "")}

\* Variant of StandardModifyPassword: the backend replaces the password
\* whatever old password it is given.
StandardModifyPasswordUnchecked(cur, old_password, new_password) ==
    [ok |-> TRUE, pw |-> new_password]

\* c.extend.standard.modify_password(user, old_password, new_password)
StandardModifyPassword(cur, old_password, new_password) ==
    [ok |-> old_password = cur, pw |-> IF old_password = cur THEN new_password ELSE cur]

\* c.extend.microsoft.modify_password(user, new_password, old_password)
MicrosoftModifyPassword(cur, new_password, old_password) ==
    [ok |-> old_password = cur, pw |-> IF old_password = cur THEN new_password ELSE cur]

(***************************************************************************)
(* post_index, lines 29-39: the confirmation and the strength check; then  *)
(* change_passwords is entered (line 42, changed = []).                    *)
(***************************************************************************)
\* Variant of PassesChecks: the verdict of the strength check is not looked at.
PassesChecksConfirmationOnly(f, verdict) == f.new_pass = f.confirm

PassesChecks(f, verdict) == f.new_pass = f.confirm /\ verdict.ret = "True"

PostIndex(r) ==
    /\ req[r].pc = "post_index"
    /\ LET f == req[r]
           v == password_is_strong(HasChecker(CONF), CONF.checker, f.new_pass)
       IN  IF PassesChecks(f, v)
           THEN /\ Set(r, [f EXCEPT !.pc = "for", !.entered = TRUE,
                                    !.changed = <<>>, !.it = 1])
                /\ LOG' = LOG \o v.logs
           ELSE IF f.new_pass # f.confirm
           THEN /\ Set(r, Respond(f, "error", MsgConfirm))
                /\ UNCHANGED LOG
           ELSE IF v.ret = "raise"
           THEN /\ Set(r, Respond(f, "crash", <<"FileNotFoundError">>))
                /\ LOG' = LOG \o v.logs
           ELSE /\ Set(r, Respond(f, "error", MsgWeak))
                /\ LOG' = LOG \o v.logs
    /\ UNCHANGED <<CONF, stored, initial>>

(***************************************************************************)
(* change_passwords, lines 73-79: the next backend of the for loop is      *)
(* handed to change_password with (old_pass, new_pass); when the loop is   *)
(* exhausted the function returns and post_index reports success (lines    *)
(* 47-49).  LOG.debug of line 76 is below the level set at line 190.       *)
\* Variant of OnLoopEnd: a run that changed no backend is an error.
OnLoopEndRequireChange(f) ==
    IF f.changed = <<>> THEN Respond(f, "error", <<"No backend is configured.">>)
    ELSE Respond(f, "success", MsgChanged)

\* The for loop of change_passwords is exhausted: the function returns and
\* post_index answers with the success page (lines 47-49).
OnLoopEnd(f) == Respond(f, "success", MsgChanged)

(***************************************************************************)
ForNext(r) ==
    /\ req[r].pc = "for"
    /\ LET f == req[r]
           keys == BackendKeys(CONF)
       IN  IF f.it > Len(keys)
           THEN /\ Set(r, OnLoopEnd(f))
                /\ LOG' = Append(LOG, LogEntry("INFO", 47, <<>>, f.username, "", <<>>))
           ELSE /\ Set(r, Call(f, "apply", keys[f.it], f.old_pass, f.new_pass))
                /\ UNCHANGED LOG
    /\ UNCHANGED <<CONF, stored, initial>>

(***************************************************************************)
(* change_password, lines 92-95: the variant is chosen by the type option. *)
(***************************************************************************)
Dispatch(r) ==
    /\ req[r].pc = "change_password"
    /\ Set(r, [req[r] EXCEPT !.pc = IF CONF.type[req[r].a_key] = "ad"
                                    THEN "ad125" ELSE "ldap115"])
    /\ UNCHANGED <<CONF, stored, initial, LOG>>

(***************************************************************************)
(* change_password_ldap, lines 115-121.                                    *)
(***************************************************************************)
\* line 115: the first, unauthenticated connection.
LdapConnect(r) ==
    /\ req[r].pc = "ldap115"
    /\ LET f == req[r]
       IN  \/ Set(r, [f EXCEPT !.pc = "ldap116", !.open = @ + 1,
                               !.ops = Append(@, Op(f.a_key, "connect", <<>>, <<>>, <<>>))])
           \/ \E x \in ConnectFailures : Set(r, Raise(f, x))
    /\ UNCHANGED <<CONF, stored, initial, LOG>>

\* line 116 and the end of the with block: find_user_dn (lines 134-137).
\* str.replace raises TypeError when uid is None.
LdapSearch(r) ==
    /\ req[r].pc = "ldap116"
    /\ LET f == req[r]
           searched == Append(f.ops, Op(f.a_key, "search", <<>>, f.username, <<>>))
           closed == Op(f.a_key, "unbind", <<>>, <<>>, <<>>)
       IN  IF f.username = None
           THEN Set(r, [Raise(f, Exc("TypeError", <<"replace">>, ""))
                           EXCEPT !.open = ExitOnException(@),
                                  !.ops = Append(@, closed)])
           ELSE \/ \E dn \in {DN(f.username), None} :
                       Set(r, [f EXCEPT !.pc = "ldap119", !.user_dn = dn,
                                        !.open = ExitNormally(@),
                                        !.ops = Append(searched, closed)])
                \/ \E x \in SearchFailures :
                       Set(r, [Raise(f, x) EXCEPT !.open = ExitOnException(@),
                                                  !.ops = Append(searched, closed)])
    /\ UNCHANGED <<CONF, stored, initial, LOG>>

\* line 119: the second connection, as user_dn with old_pass; raises
\* LDAPUserNameIsMandatoryError when user_dn is None (comment of line 118).
LdapConnectAs(r) ==
    /\ req[r].pc = "ldap119"
    /\ LET f == req[r]
       IN  IF f.user_dn = None
           THEN Set(r, Raise(f, Exc("LDAPUserNameIsMandatoryError",
                                    <<"user name is mandatory">>, "")))
           ELSE \/ Set(r, [f EXCEPT !.pc = "ldap120", !.user = LdapCredentials(f)[1],
                                    !.open = @ + 1,
                                    !.ops = Append(@, Op(f.a_key, "connect",
                                                         LdapCredentials(f)[1],
                                                         LdapCredentials(f)[2], <<>>))])
                \/ \E x \in ConnectFailures : Set(r, Raise(f, x))
    /\ UNCHANGED <<CONF, stored, initial, LOG>>

\* line 120: c.bind().
LdapBind(r) ==
    /\ req[r].pc = "ldap120"
    /\ LET f == req[r]
           bound == Append(f.ops, Op(f.a_key, "bind", f.user, f.a_old, <<>>))
           closed == Op(f.a_key, "unbind", <<>>, <<>>, <<>>)
       IN  IF f.a_old = stored[f.a_key]
           THEN Set(r, [f EXCEPT !.pc = "ldap121", !.ops = bound])
           ELSE \E x \in BindFailures :
                    Set(r, [Raise(f, x) EXCEPT !.open = ExitOnException(@),
                                               !.ops = Append(bound, closed)])
    /\ UNCHANGED <<CONF, stored, initial, LOG>>

\* line 121 and the end of the with block.
LdapModify(r) ==
    /\ req[r].pc = "ldap121"
    /\ LET f == req[r]
           args == LdapModifyArgs(f)
           sent == Append(f.ops, Op(f.a_key, "modify_password", args[1], args[2], args[3]))
           closed == Op(f.a_key, "unbind", <<>>, <<>>, <<>>)
           after == StandardModifyPassword(stored[f.a_key], args[2], args[3])
       IN  \/ /\ after.ok
              /\ stored' = [stored EXCEPT ![f.a_key] = after.pw]
              /\ Set(r, [f EXCEPT !.pc = "returned", !.open = ExitNormally(@),
                                  !.ops = Append(sent, closed)])
           \/ /\ \E x \in ModifyFailures :
                     Set(r, [Raise(f, x) EXCEPT !.open = ExitOnException(@),
                                                !.ops = Append(sent, closed)])
              /\ UNCHANGED stored
    /\ UNCHANGED <<CONF, initial, LOG>>

(***************************************************************************)
(* change_password_ad, lines 125-130.                                      *)
(***************************************************************************)
\* line 125: the principal username@ad_domain; None + '@' raises TypeError.
AdPrincipal(r) ==
    /\ req[r].pc = "ad125"
    /\ LET f == req[r]
       IN  IF f.username = None
           THEN Set(r, Raise(f, Exc("TypeError", <<"NoneType + str">>, "")))
           ELSE Set(r, [f EXCEPT !.pc = "ad127", !.user = AdPrincipalName(f)])
    /\ UNCHANGED <<CONF, stored, initial, LOG>>

\* line 127: the connection, as the principal with old_pass.
AdConnect(r) ==
    /\ req[r].pc = "ad127"
    /\ LET f == req[r]
       IN  \/ Set(r, [f EXCEPT !.pc = "ad128", !.open = @ + 1,
                               !.ops = Append(@, Op(f.a_key, "connect", f.user,
                                                    f.a_old, <<>>))])
           \/ \E x \in ConnectFailures : Set(r, Raise(f, x))
    /\ UNCHANGED <<CONF, stored, initial, LOG>>

\* line 128: c.bind().
AdBind(r) ==
    /\ req[r].pc = "ad128"
    /\ LET f == req[r]
           bound == Append(f.ops, Op(f.a_key, "bind", f.user, f.a_old, <<>>))
           closed == Op(f.a_key, "unbind", <<>>, <<>>, <<>>)
       IN  IF f.a_old = stored[f.a_key]
           THEN Set(r, [f EXCEPT !.pc = "ad129", !.ops = bound])
           ELSE \E x \in BindFailures :
                    Set(r, [Raise(f, x) EXCEPT !.open = ExitOnException(@),
                                               !.ops = Append(bound, closed)])
    /\ UNCHANGED <<CONF, stored, initial, LOG>>

\* line 129: find_user_dn on the same connection.
AdSearch(r) ==
    /\ req[r].pc = "ad129"
    /\ LET f == req[r]
           searched == Append(f.ops, Op(f.a_key, "search", f.user, f.username, <<>>))
           closed == Op(f.a_key, "unbind", <<>>, <<>>, <<>>)
       IN  \/ \E dn \in {DN(f.username), None} :
                  Set(r, [f EXCEPT !.pc = "ad130", !.user_dn = dn, !.ops = searched])
           \/ \E x \in SearchFailures :
                  Set(r, [Raise(f, x) EXCEPT !.open = ExitOnException(@),
                                             !.ops = Append(searched, closed)])
    /\ UNCHANGED <<CONF, stored, initial, LOG>>

\* line 130 and the end of the with block: the extended operation takes
\* (user_dn, new_pass, old_pass).
AdModify(r) ==
    /\ req[r].pc = "ad130"
    /\ LET f == req[r]
           args == AdModifyArgs(f)
           sent == Append(f.ops, Op(f.a_key, "ad_modify_password", args[1], args[2], args[3]))
           closed == Op(f.a_key, "unbind", <<>>, <<>>, <<>>)
           after == MicrosoftModifyPassword(stored[f.a_key], args[2], args[3])
       IN  IF f.user_dn = None
           THEN /\ \E x \in NoIdentityFailures :
                       Set(r, [Raise(f, x) EXCEPT !.open = ExitOnException(@),
                                                  !.ops = Append(@, closed)])
                /\ UNCHANGED stored
           ELSE \/ /\ after.ok
                   /\ stored' = [stored EXCEPT ![f.a_key] = after.pw]
                   /\ Set(r, [f EXCEPT !.pc = "returned", !.open = ExitNormally(@),
                                       !.ops = Append(sent, closed)])
                \/ /\ \E x \in ModifyFailures :
                          Set(r, [Raise(f, x) EXCEPT !.open = ExitOnException(@),
                                                     !.ops = Append(sent, closed)])
                   /\ UNCHANGED stored
    /\ UNCHANGED <<CONF, initial, LOG>>

(***************************************************************************)
(* change_password, lines 97-111: the except clauses.  A matching clause   *)
(* raises Error in place of the exception; an exception no clause matches  *)
(* leaves change_password unchanged.                                       *)
(***************************************************************************)
Except(r) ==
    /\ req[r].pc = "except"
    /\ LET f == req[r]
           c == Classify(f.exc)
       IN  /\ Set(r, [f EXCEPT !.exc = c.err,
                               !.pc = IF c.caught THEN "raised_error" ELSE "raised_other"])
           /\ LOG' = LOG \o c.logs
    /\ UNCHANGED <<CONF, stored, initial>>

(***************************************************************************)
(* change_passwords, lines 78-81: the apply attempt is over.  On return    *)
(* the key is appended to changed; `except Error as e` starts the revert   *)
(* loop over reversed(changed); any other exception leaves                 *)
(* change_passwords and post_index (its try catches Error only).           *)
(***************************************************************************)
Reversed(seq) == [k \in 1..Len(seq) |-> seq[Len(seq) + 1 - k]]

\* Variant of OnApplied: the revert loop also follows a successful attempt.
OnAppliedThenRevert(f) ==
    [Ended(f, "ok") EXCEPT !.pc = IF f.it = Len(BackendKeys(CONF)) THEN "revert" ELSE "for",
                           !.changed = Append(@, f.a_key), !.it = @ + 1, !.rit = 1]

\* Variant of OnApplied: the key is not appended to changed.
OnAppliedNoAppend(f) ==
    [Ended(f, "ok") EXCEPT !.pc = "for", !.it = @ + 1]

OnApplied(f) ==
    [Ended(f, "ok") EXCEPT !.pc = "for", !.changed = Append(@, f.a_key), !.it = @ + 1]

OnApplyError(f) ==
    [Ended(f, "Error") EXCEPT !.pc = "revert", !.e = f.exc, !.rit = 1]

ApplyReturn(r) ==
    /\ req[r].phase = "apply"
    /\ req[r].pc \in {"returned", "raised_error", "raised_other"}
    /\ LET f == req[r]
       IN  CASE f.pc = "returned" -> Set(r, OnApplied(f))
             [] f.pc = "raised_error" -> Set(r, OnApplyError(f))
             [] OTHER -> Set(r, Respond(Ended(f, "exception"), "crash", <<f.exc.cls>>))
    /\ UNCHANGED <<CONF, stored, initial, LOG>>

(***************************************************************************)
(* change_passwords, lines 81-87: the next key of reversed(changed) is     *)
(* handed to change_password with (new_pass, old_pass); when the loop is   *)
(* exhausted `raise e` reaches post_index, which logs and reports str(e)   *)
(* (lines 43-45).                                                          *)
(***************************************************************************)
RevertArgs(f) == <<f.new_pass, f.old_pass>>

Reraised(f) == f.e

RevertNext(r) ==
    /\ req[r].pc = "revert"
    /\ LET f == req[r]
           keys == Reversed(f.changed)
       IN  IF f.rit > Len(keys)
           THEN /\ Set(r, Respond(f, "error", Reraised(f).msg))
                /\ LOG' = Append(LOG, LogEntry("WARNING", 44, <<>>, f.username, "",
                                               Reraised(f).msg))
           ELSE /\ Set(r, Call(f, "revert", keys[f.rit], RevertArgs(f)[1], RevertArgs(f)[2]))
                /\ LOG' = Append(LOG, LogEntry("INFO", 82, keys[f.rit], f.username,
                                               "", <<>>))
    /\ UNCHANGED <<CONF, stored, initial>>

(***************************************************************************)
(* change_passwords, lines 84-86: the reversal attempt is over.            *)
(* `except Error as e2` logs e.__class__.__name__ and str(e2) and the loop *)
(* goes on; any other exception leaves change_passwords and post_index.    *)
(***************************************************************************)
RevertErrorLog(f) == LogEntry("ERROR", 86, <<>>, <<>>, f.e.cls, f.exc.msg)

RevertReturn(r) ==
    /\ req[r].phase = "revert"
    /\ req[r].pc \in {"returned", "raised_error", "raised_other"}
    /\ LET f == req[r]
       IN  CASE f.pc = "returned" ->
                  /\ Set(r, [Ended(f, "ok") EXCEPT !.pc = "revert", !.rit = @ + 1])
                  /\ UNCHANGED LOG
             [] f.pc = "raised_error" ->
                  /\ Set(r, [Ended(f, "Error") EXCEPT !.pc = "revert", !.rit = @ + 1,
                                                      !.e2 = f.exc])
                  /\ LOG' = Append(LOG, RevertErrorLog(f))
             [] OTHER ->
                  /\ Set(r, Respond(Ended(f, "exception"), "crash", <<f.exc.cls>>))
                  /\ UNCHANGED LOG
    /\ UNCHANGED <<CONF, stored, initial>>

Next ==
    \E r \in RunIds :
        \/ PostIndex(r)
        \/ ForNext(r)
        \/ Dispatch(r)
        \/ LdapConnect(r)
        \/ LdapSearch(r)
        \/ LdapConnectAs(r)
        \/ LdapBind(r)
        \/ LdapModify(r)
        \/ AdPrincipal(r)
        \/ AdConnect(r)
        \/ AdBind(r)
        \/ AdSearch(r)
        \/ AdModify(r)
        \/ Except(r)
        \/ ApplyReturn(r)
        \/ RevertNext(r)
        \/ RevertReturn(r)

Spec == Init /\ [][Next]_vars

(***************************************************************************)
(* Vocabulary of the properties.                                           *)
(***************************************************************************)
IsApply(t) == t.phase = "apply"

IsRevert(t) == t.phase = "revert"

\* The apply attempts and the reversal attempts a request has issued, in order.
Applies(f) == SelectSeq(f.trace, IsApply)

Reverts(f) == SelectSeq(f.trace, IsRevert)

\* The apply attempt of the request failed on its last (k-th) backend and the
\* request has ended.
FailedRun(f) ==
    /\ f.pc = "done"
    /\ Applies(f) # <<>>
    /\ Applies(f)[Len(Applies(f))].result \in {"Error", "exception"}

\* Every configured backend was applied with success.
AllApplied(f) ==
    /\ Len(Applies(f)) = Len(BackendKeys(CONF))
    /\ \A j \in 1..Len(Applies(f)) : Applies(f)[j].result = "ok"

(***************************************************************************)
(* C1.  When the apply attempts succeed on backends 1..k-1 and fail on     *)
(* backend k, exactly k-1 reversal attempts are issued, to backends k-1,   *)
(* ..., 1 in that order, each with old and new password swapped; backend k *)
(* gets no reversal attempt and no backend after k is attempted, whatever  *)
(* the outcome of each reversal attempt.                                   *)
(***************************************************************************)
C1_ReverseOrderCompensation ==
    \A r \in RunIds :
        LET f == req[r]
            a == Applies(f)
            v == Reverts(f)
            k == Len(a)
        IN  FailedRun(f) =>
                /\ \A j \in 1..k : a[j].key = BackendKeys(CONF)[j]
                /\ Len(v) = k - 1
                /\ \A j \in 1..Len(v) :
                       /\ v[j].key = BackendKeys(CONF)[k - j]
                       /\ v[j].old = f.new_pass
                       /\ v[j].new = f.old_pass

(***************************************************************************)
(* C2.  For every run of change_passwords that fails, the error returned   *)
(* to the caller is the classified error of the first backend whose apply  *)
(* attempt failed, whatever the reversal attempts do; a reversal failure   *)
(* is never the returned error.                                            *)
(***************************************************************************)
C2_OriginatingErrorSurfaces ==
    \A r \in RunIds :
        LET f == req[r]
            a == Applies(f)
        IN  FailedRun(f) =>
                /\ a[Len(a)].err.cls = "Error"
                /\ f.response = [status |-> "error", msg |-> a[Len(a)].err.msg]

(***************************************************************************)
(* C3.  If the apply attempt succeeds on every configured backend, no      *)
(* reversal call is issued at any point of the run and the run returns     *)
(* success.                                                                *)
(***************************************************************************)
C3_NoReversalOnSuccess ==
    \A r \in RunIds :
        LET f == req[r]
        IN  (f.entered /\ AllApplied(f)) =>
                /\ Reverts(f) = <<>>
                /\ f.pc \in {"for", "done"}
                /\ f.pc = "done" => f.response.status = "success"

C3_Witness ==
    \E r \in RunIds :
        /\ req[r].pc = "done"
        /\ req[r].entered
        /\ AllApplied(req[r])
        /\ Len(Applies(req[r])) >= 2
        /\ req[r].response.status = "success"

\* The request runs alone: no other request is submitted.
Isolated(r) == \A q \in RunIds \ {r} : req[q].pc = "absent"

\* Every backend held the old password of the request before it started.
StartedConsistent(f) == \A key \in DOMAIN initial : initial[key] = f.old_pass

AllHold(password) == \A key \in DOMAIN stored : stored[key] = password

(***************************************************************************)
(* C4.  For a single run in isolation that starts with every backend       *)
(* holding the old password: when the run has ended, all backends hold the *)
(* same password, the new one if the run returned success and the old one  *)
(* if it returned a failure.                                               *)
(***************************************************************************)
C4_ConsistentAfterRun ==
    \A r \in RunIds :
        LET f == req[r]
        IN  (Isolated(r) /\ f.pc = "done" /\ f.entered /\ StartedConsistent(f)) =>
                /\ f.response.status = "success" => AllHold(f.new_pass)
                /\ f.response.status = "error" => AllHold(f.old_pass)

(***************************************************************************)
(* C4, amended.  Under the same conditions: after success all backends     *)
(* hold the new password; after a returned Error all backends hold the old *)
(* password provided every reversal attempt succeeded; a backend whose     *)
(* reversal attempt failed keeps the new password.                         *)
(***************************************************************************)
C4_ConsistentUnlessReversalFailed ==
    \A r \in RunIds :
        LET f == req[r]
            v == Reverts(f)
        IN  (Isolated(r) /\ f.pc = "done" /\ f.entered /\ StartedConsistent(f)) =>
                /\ f.response.status = "success" => AllHold(f.new_pass)
                /\ (/\ f.response.status = "error"
                    /\ \A j \in 1..Len(v) : v[j].result = "ok") => AllHold(f.old_pass)
                /\ \A j \in 1..Len(v) :
                       v[j].result # "ok" => stored[v[j].key] = f.new_pass

C4_Witness ==
    \E r \in RunIds :
        LET f == req[r]
            v == Reverts(f)
        IN  /\ Isolated(r) /\ f.pc = "done" /\ f.entered /\ StartedConsistent(f)
            /\ f.response.status = "error"
            /\ Len(v) >= 2
            /\ \A j \in 1..Len(v) : v[j].result = "ok"
            /\ AllHold(f.old_pass)

(***************************************************************************)
(* C5.  If the confirmation does not match the new password or the         *)
(* strength validator rejects the new password, no adapter invocation and  *)
(* no directory operation is made for that request: change_passwords is    *)
(* entered only after both checks passed.                                  *)
(***************************************************************************)
C5_NoBackendCallBeforeChecks ==
    \A r \in RunIds :
        LET f == req[r]
            v == password_is_strong(HasChecker(CONF), CONF.checker, f.new_pass)
        IN  (f.pc # "absent" /\ (f.new_pass # f.confirm \/ v.ret # "True")) =>
                /\ ~f.entered
                /\ f.trace = <<>>
                /\ f.ops = <<>>

C5_Witness ==
    \E r \in RunIds :
        LET f == req[r]
        IN  /\ f.pc = "done"
            /\ f.new_pass = f.confirm
            /\ password_is_strong(HasChecker(CONF), CONF.checker, f.new_pass).ret = "False"
            /\ f.response = [status |-> "error", msg |-> MsgWeak]
            /\ Len(BackendKeys(CONF)) >= 1

(***************************************************************************)
(* C6.  Every failure raised inside an adapter invocation is classified    *)
(* before it leaves change_passwords: a run ends with success or with a    *)
(* classified Error, never with another exception leaving the              *)
(* orchestrator, and never without the reversal of the backends already    *)
(* changed having been attempted.                                          *)
(***************************************************************************)
C6_NoUnclassifiedEscape ==
    \A r \in RunIds :
        LET f == req[r]
        IN  (f.pc = "done" /\ f.entered) =>
                /\ f.response.status \in {"success", "error"}
                /\ f.response.status # "success" => Len(Reverts(f)) = Len(f.changed)

(***************************************************************************)
(* C7.  The except clauses of change_password map every backend-protocol   *)
(* failure to one of four kinds: bind failure, invalid credentials and     *)
(* username-is-mandatory to InvalidCredentials, constraint violation to    *)
(* PolicyRejected, socket-open failure to ConnectionFailure, and every     *)
(* other backend-protocol failure to ProtocolError.                        *)
(***************************************************************************)
ExpectedKind(cls) ==
    IF cls \in {"LDAPBindError", "LDAPInvalidCredentialsResult",
                "LDAPUserNameIsMandatoryError"} THEN "InvalidCredentials"
    ELSE IF cls = "LDAPConstraintViolationResult" THEN "PolicyRejected"
    ELSE IF cls = "LDAPSocketOpenError" THEN "ConnectionFailure"
    ELSE "ProtocolError"

C7_ClassifierTotal ==
    \A r \in RunIds :
        LET f == req[r]
        IN  (/\ f.pc \in {"raised_error", "raised_other"}
             /\ IsBackendProtocolFailure(f.raw.cls)) =>
                /\ f.exc.cls = "Error"
                /\ f.exc.kind = ExpectedKind(f.raw.cls)

(***************************************************************************)
(* C8.  Every connection an adapter invocation opened is released before   *)
(* control is back in change_password or change_passwords, on every exit   *)
(* path: outside the adapters a request holds no open connection.          *)
(***************************************************************************)
OutsideAdapter ==
    {"post_index", "for", "change_password", "except", "returned", "raised_error",
     "raised_other", "revert", "done"}

C8_ConnectionsReleased ==
    \A r \in RunIds : req[r].pc \in OutsideAdapter => req[r].open = 0

C8_Witness ==
    \E r \in RunIds :
        /\ req[r].pc = "raised_error"
        /\ req[r].phase = "revert"
        /\ req[r].raw.cls = "LDAPConstraintViolationResult"
        /\ req[r].open = 0
        /\ \E j \in 1..Len(req[r].trace) :
               /\ req[r].trace[j].phase = "apply"
               /\ req[r].trace[j].raw.cls = "LDAPInvalidCredentialsResult"

(***************************************************************************)
(* C9.  Whenever a reversal attempt fails with a classified Error, the log *)
(* receives an error entry that carries the key of that backend and the    *)
(* message of the classified reversal failure.                             *)
(***************************************************************************)
C9_ReversalFailureLogged ==
    \A r \in RunIds :
        \A j \in 1..Len(req[r].trace) :
            LET t == req[r].trace[j]
            IN  (t.phase = "revert" /\ t.result = "Error") =>
                    \E i \in 1..Len(LOG) :
                        /\ LOG[i].level = "ERROR"
                        /\ LOG[i].backend = t.key
                        /\ LOG[i].text = t.err.msg

(***************************************************************************)
(* C10.  When the failure returned to the user is classified as            *)
(* ConnectionFailure or ProtocolError, the user message is the fixed       *)
(* message of that kind, whatever the text of the underlying exception;    *)
(* that text is in the log and no word of it is in the user message.       *)
(***************************************************************************)
FixedMessage(kind) == IF kind = "ConnectionFailure" THEN MsgConnection ELSE MsgProtocol

C10_FixedUserMessage ==
    \A r \in RunIds :
        LET f == req[r]
            a == Applies(f)
            t == a[Len(a)]
        IN  (/\ f.pc = "done" /\ f.entered /\ f.response.status = "error"
             /\ f.e.kind \in {"ConnectionFailure", "ProtocolError"}) =>
                /\ f.response.msg = FixedMessage(f.e.kind)
                /\ \A i \in 1..Len(t.raw.msg) : \A j \in 1..Len(f.response.msg) :
                       f.response.msg[j] # t.raw.msg[i]
                /\ \E i \in 1..Len(LOG) :
                       /\ LOG[i].level = "ERROR"
                       /\ LOG[i].cls = t.raw.cls
                       /\ LOG[i].text = t.raw.msg

C10_Witness ==
    \E r \in RunIds :
        LET f == req[r]
            a == Applies(f)
        IN  /\ f.pc = "done" /\ f.entered /\ f.response.status = "error"
            /\ f.e.kind = "ConnectionFailure"
            /\ Len(a) >= 2
            /\ a[Len(a)].raw.msg = <<"timed out">>
            /\ f.response.msg = MsgConnection

(***************************************************************************)
(* Progress.  A request is a thread of the server: it takes its next step  *)
(* whenever it has one (every call it makes returns or raises; the connect *)
(* of line 65 gives up after connect_timeout).                             *)
(***************************************************************************)
RunStep(r) ==
    \/ PostIndex(r) \/ ForNext(r) \/ Dispatch(r)
    \/ LdapConnect(r) \/ LdapSearch(r) \/ LdapConnectAs(r) \/ LdapBind(r) \/ LdapModify(r)
    \/ AdPrincipal(r) \/ AdConnect(r) \/ AdBind(r) \/ AdSearch(r) \/ AdModify(r)
    \/ Except(r) \/ ApplyReturn(r) \/ RevertNext(r) \/ RevertReturn(r)

Fairness == \A r \in RunIds : WF_vars(RunStep(r))

InitLive == InitOf({1}, MaxLiveBackends)

LiveSpec == InitLive /\ [][Next]_vars /\ Fairness

(***************************************************************************)
(* C11.  Every run of change_passwords, once started, eventually reaches a *)
(* terminal state and returns: success, or failure after the compensation  *)
(* of every changed backend was attempted; it is never abandoned midway in *)
(* the apply or the compensation loop.                                     *)
(***************************************************************************)
Terminal(f) ==
    /\ f.pc = "done"
    /\ \/ f.response.status = "success"
       \/ f.response.status = "error" /\ Len(Reverts(f)) = Len(f.changed)

C11_RunTerminates ==
    \A r \in RunIds : req[r].entered ~> Terminal(req[r])

(***************************************************************************)
(* The strength validator on its own: a server without backend sections    *)
(* (change_passwords then has nothing to do), every policy of a small      *)
(* family and every password over a small alphabet, the new password       *)
(* confirmed.  post_index applies password_is_strong (line 38).            *)
(***************************************************************************)
PwAlphabet == {"a", "A", "1", "!"}

Strings(n) == UNION {[1..k -> PwAlphabet] : k \in 0..n}

\* Passwords long enough for the default min_length, and the one below it.
PwEight == <<"a", "A", "1", "!", "a", "A", "1", "!">>

PwSeven == <<"a", "A", "1", "!", "a", "A", "1">>

PwSummer == <<"S", "u", "m", "m", "e", "r", "2", "0", "2", "4", "!">>

Passwords == Strings(MaxPwLen) \cup {PwEight, PwSeven, PwSummer}

\* Dictionary files, as the lines iterating the file yields: entries with and
\* without the final newline, with trailing blanks, in upper case, and lines
\* of whitespace only.
DictionaryFiles ==
    {<<>>,
     <<<<"\n">>, <<" ", "\t", "\n">>>>,
     <<<<"1", "a", "\n">>, <<"\n">>, <<"!", "!">>>>,
     <<<<"A", "!", " ", "\n">>, <<" ", "\n">>, <<"s", "u", "m", "m", "e", "r", "\n">>>>}

MinLengths == {-1, 1, 3}

Policies ==
    {Checker(m, mc, d, sp, FALSE, FALSE, <<>>) :
        m \in MinLengths, mc \in BOOLEAN, d \in BOOLEAN, sp \in BOOLEAN}
    \cup
    {Checker(m, mc, d, sp, TRUE, FALSE, <<>>) :
        m \in MinLengths, mc \in BOOLEAN, d \in BOOLEAN, sp \in BOOLEAN}
    \cup
    {Checker(m, mc, d, sp, TRUE, TRUE, lines) :
        m \in MinLengths, mc \in BOOLEAN, d \in BOOLEAN, sp \in BOOLEAN,
        lines \in DictionaryFiles}

ValidatorConfigs ==
    {[sections |-> Sections(<<KeyChecker>>, 0), type |-> t, checker |-> c] :
        t \in [BackendKeySet(0) -> {"", "ad"}], c \in Policies}
    \cup Configs(0)

InitValidator ==
    /\ CONF \in ValidatorConfigs
    /\ \E password \in Passwords :
           req = [r \in RunIds |->
                     IF r = 1 THEN Frame(<<"a", "l">>, PwOld, password, password)
                     ELSE Absent]
    /\ stored \in [BackendKeySet(0) -> {PwOld}]
    /\ initial = stored
    /\ LOG = <<>>

\* Without backend sections a request takes the steps of post_index and of the
\* (empty) loop of change_passwords only.
NextValidator == \E r \in RunIds : PostIndex(r) \/ ForNext(r)

SpecValidator == InitValidator /\ [][NextValidator]_vars

\* The request was answered by the page of line 39.
RejectedAsWeak(f) ==
    /\ f.pc = "done"
    /\ ~f.entered
    /\ f.response = [status |-> "error", msg |-> MsgWeak]

\* post_index has decided on the request.
Validated(f) == f.pc \notin {"absent", "post_index"}

Chars(s) == {s[k] : k \in 1..Len(s)}

\* A dictionary entry: the line without its trailing whitespace.
Entry(line) ==
    LET solid == {k \in 1..Len(line) : line[k] \notin Whitespace}
    IN  IF solid = {} THEN <<>>
        ELSE SubSeq(line, 1, CHOOSE k \in solid : \A j \in solid : j <= k)

SameLetter(a, b) ==
    \/ a = b
    \/ \E k \in 1..Len(LowerLetters) : {a, b} = {LowerLetters[k], UpperLetters[k]}

\* entry is a substring of text, letters compared without regard to case.
OccursIgnoringCase(entry, text) ==
    \E off \in 0..(Len(text) - Len(entry)) :
        \A j \in 1..Len(entry) : SameLetter(entry[j], text[off + j])

InDictionary(lines, password) ==
    \E k \in 1..Len(lines) :
        /\ Entry(lines[k]) # <<>>
        /\ OccursIgnoringCase(Entry(lines[k]), password)

\* The rules that come before the dictionary check.
RulesBeforeDictionary(conf, password) ==
    /\ Len(password) >= (IF conf.min_length < 0 THEN 8 ELSE conf.min_length)
    /\ conf.mixed_case_required =>
           password # lower(password) /\ password # upper(password)
    /\ conf.digit_required => Chars(password) \cap Digits # {}
    /\ conf.special_required => Chars(password) \cap Specials # {}

ReferencePolicy(present, conf, password) ==
    ~present
    \/ /\ RulesBeforeDictionary(conf, password)
       /\ conf.dictionary_check_enabled =>
              conf.file_exists /\ ~InDictionary(conf.dictionary_file, password)

(***************************************************************************)
(* C12.  password_is_strong is the reference policy: without a             *)
(* password_checker section every password passes; otherwise a password    *)
(* passes exactly when it has at least min_length characters (8 when not   *)
(* set) and satisfies every enabled rule: mixed case, a digit 0-9, a       *)
(* character of the punctuation set, the dictionary check.  A disabled     *)
(* rule never rejects.                                                     *)
(***************************************************************************)
C12_ValidatorIsReferencePolicy ==
    \A r \in RunIds :
        LET f == req[r]
        IN  Validated(f) =>
                /\ f.entered <=>
                       ReferencePolicy(HasChecker(CONF), CONF.checker, f.new_pass)
                /\ f.entered \/ RejectedAsWeak(f) \/ f.response.status = "crash"

\* A password accepted under a policy with every rule enabled, the default
\* length and a dictionary that has entries.
C12_Witness ==
    \E r \in RunIds :
        LET f == req[r]
            c == CONF.checker
        IN  /\ Validated(f) /\ HasChecker(CONF)
            /\ f.entered
            /\ c.min_length < 0
            /\ c.mixed_case_required /\ c.digit_required /\ c.special_required
            /\ c.dictionary_check_enabled
            /\ \E k \in 1..Len(c.dictionary_file) : Entry(c.dictionary_file[k]) # <<>>

(***************************************************************************)
(* C13.  With dictionary_check_enabled (and the file there), a password    *)
(* that passes the checks before it is rejected exactly when some          *)
(* non-empty dictionary entry is a substring of it, compared without       *)
(* regard to case; a password with such an entry is never accepted; blank  *)
(* and whitespace-only lines are skipped and never cause a rejection.      *)
(***************************************************************************)
C13_DictionarySubstringCheck ==
    \A r \in RunIds :
        LET f == req[r]
            c == CONF.checker
        IN  (/\ Validated(f) /\ HasChecker(CONF)
             /\ c.dictionary_check_enabled /\ c.file_exists)
            => /\ InDictionary(c.dictionary_file, f.new_pass) => RejectedAsWeak(f)
               /\ RulesBeforeDictionary(c, f.new_pass) =>
                      (RejectedAsWeak(f) <=> InDictionary(c.dictionary_file, f.new_pass))
               /\ (\A k \in 1..Len(c.dictionary_file) : isspace(c.dictionary_file[k]))
                      => (RejectedAsWeak(f) <=> ~RulesBeforeDictionary(c, f.new_pass))

\* 'Summer2024!' is rejected for the entry 'summer', by a dictionary that also
\* has a whitespace-only line, every other rule being satisfied.
C13_Witness ==
    \E r \in RunIds :
        LET f == req[r]
            c == CONF.checker
        IN  /\ Validated(f) /\ HasChecker(CONF)
            /\ c.dictionary_check_enabled /\ c.file_exists
            /\ f.new_pass = PwSummer
            /\ \E k \in 1..Len(c.dictionary_file) :
                   c.dictionary_file[k] = <<"s", "u", "m", "m", "e", "r", "\n">>
            /\ \E k \in 1..Len(c.dictionary_file) : isspace(c.dictionary_file[k])
            /\ c.mixed_case_required /\ c.digit_required /\ c.special_required
            /\ RulesBeforeDictionary(c, f.new_pass)
            /\ RejectedAsWeak(f)

(***************************************************************************)
(* C14.  When the dictionary check is enabled, the checks before it pass   *)
(* and the dictionary file is missing, the request ends in an outcome that *)
(* is neither 'password accepted' nor the validation-failure page, and no  *)
(* backend adapter call is made for it.                                    *)
(***************************************************************************)
MissingDictionary(f) ==
    /\ f.new_pass = f.confirm
    /\ HasChecker(CONF)
    /\ CONF.checker.dictionary_check_enabled
    /\ ~CONF.checker.file_exists
    /\ RulesBeforeDictionary(CONF.checker, f.new_pass)

C14_MissingDictionaryIsConfigurationError ==
    \A r \in RunIds :
        LET f == req[r]
        IN  (Validated(f) /\ MissingDictionary(f))
            => /\ f.pc = "done"
               /\ f.response = [status |-> "crash", msg |-> <<"FileNotFoundError">>]
               /\ ~f.entered
               /\ f.trace = <<>> /\ f.ops = <<>>
               /\ \A key \in DOMAIN stored : stored[key] = initial[key]

\* Such a request on a server that has backends.
C14_Witness ==
    \E r \in RunIds :
        /\ Validated(req[r]) /\ MissingDictionary(req[r])
        /\ req[r].response.status = "crash"
        /\ Len(BackendKeys(CONF)) >= 2

(***************************************************************************)
(* C15.  One run of change_passwords follows the state machine             *)
(* Idle -> Applying(1) -> ... -> Succeeded, or                             *)
(* Applying(i) -> Compensating(i-1..1) -> Failed: backends are applied one *)
(* at a time in configuration order, each gets at most one apply and one   *)
(* reversal attempt, no apply follows the start of compensation, and       *)
(* Succeeded and Failed are the only ends, after which no backend is       *)
(* called.                                                                 *)
(***************************************************************************)
MachineState(name, i) == [name |-> name, i |-> i]

IndexOf(keys, key) == CHOOSE i \in 1..Len(keys) : keys[i] = key

\* The state of the machine a request is in: the ends by the answer of
\* post_index, the others by the latest adapter invocation of the run.
Phase(f) ==
    IF ~f.entered \/ f.pc = "absent" THEN MachineState("Idle", 0)
    ELSE IF f.pc = "done" /\ f.response.status = "success"
         THEN MachineState("Succeeded", 0)
    ELSE IF f.pc = "done" /\ f.response.status = "error"
         THEN MachineState("Failed", 0)
    ELSE IF f.pc = "done" THEN MachineState("Escaped", 0)
    ELSE IF f.trace = <<>> THEN MachineState("Idle", 0)
    ELSE LET t == f.trace[Len(f.trace)]
         IN  MachineState(IF IsApply(t) THEN "Applying" ELSE "Compensating",
                          IndexOf(BackendKeys(CONF), t.key))

MachineStep(p, q, n) ==
    \/ q = p
    \/ p.name = "Idle" /\ q = MachineState("Applying", 1)
    \/ p.name = "Idle" /\ n = 0 /\ q.name = "Succeeded"
    \/ p.name = "Applying" /\ q = MachineState("Applying", p.i + 1)
    \/ p.name = "Applying" /\ p.i = n /\ q.name = "Succeeded"
    \/ p.name = "Applying" /\ p.i > 1 /\ q = MachineState("Compensating", p.i - 1)
    \/ p.name = "Applying" /\ p.i = 1 /\ q.name = "Failed"
    \/ p.name = "Compensating" /\ p.i > 1 /\ q = MachineState("Compensating", p.i - 1)
    \/ p.name = "Compensating" /\ p.i = 1 /\ q.name = "Failed"

C15_RunFollowsStateMachine ==
    [][\A r \in RunIds :
          /\ MachineStep(Phase(req[r]), Phase(req'[r]), Len(BackendKeys(CONF)))
          /\ Phase(req[r]).name \in {"Succeeded", "Failed"}
                 => req'[r].trace = req[r].trace /\ req'[r].ops = req[r].ops]_vars

(***************************************************************************)
(* The adapters.  What an adapter invocation does is the same for every    *)
(* backend of a run, in an apply attempt and in a reversal; a server with  *)
(* few backend sections shows all of it.                                   *)
(***************************************************************************)
InitAdapters == InitOf({1}, MaxAdapterBackends)

SpecAdapters == InitAdapters /\ [][Next]_vars

(***************************************************************************)
(* Vocabulary of the adapter claims: the directory operations of the       *)
(* adapter invocation a request made last.                                 *)
(***************************************************************************)
OpNames(f) == [k \in 1..Len(f.ops) |-> f.ops[k].op]

IsPrefix(s, t) == Len(s) <= Len(t) /\ SubSeq(t, 1, Len(s)) = s

\* The request has called change_password for a backend of the given kind.
Invoked(f, ad) == f.trace # <<>> /\ ((CONF.type[f.a_key] = "ad") <=> ad)

Latest(f) == f.trace[Len(f.trace)]

(***************************************************************************)
(* C16.  The generic variant searches on a first, unauthenticated          *)
(* connection, releases it before it opens the second, authenticates the   *)
(* second as the identity found with the password passed as old, and calls *)
(* modify-password only after that bind succeeded.  When the search finds  *)
(* no identity the invocation fails as invalid credentials and             *)
(* modify-password is not called.                                          *)
(***************************************************************************)
GenericRuns ==
    {<<"connect", "search", "unbind", "connect", "bind", "modify_password", "unbind">>,
     <<"connect", "search", "unbind", "connect", "bind", "unbind">>,
     <<"connect", "unbind">>}

C16_GenericOrder ==
    \A r \in RunIds :
        LET f == req[r]
            ops == f.ops
        IN  Invoked(f, FALSE) =>
                /\ \E run \in GenericRuns : IsPrefix(OpNames(f), run)
                /\ f.open \in {0, 1}
                /\ f.pc = "ldap119" => f.open = 0
                /\ f.pc \in {"ldap120", "ldap121"} => f.open = 1
                /\ \A k \in 1..Len(ops) :
                       /\ ops[k].op = "search" =>
                              /\ k = 2 /\ ops[1].op = "connect"
                              /\ ops[1].user = <<>> /\ ops[1].p1 = <<>>
                       /\ (ops[k].op = "connect" /\ k > 1) =>
                              /\ ops[k - 1].op = "unbind"
                              /\ f.user_dn # None
                              /\ ops[k].user = f.user_dn /\ ops[k].p1 = f.a_old
                       /\ ops[k].op = "bind" =>
                              ops[k].user = f.user_dn /\ ops[k].p1 = f.a_old
                       /\ ops[k].op = "modify_password" =>
                              ops[k - 1].op = "bind" /\ ops[k].user = f.user_dn
                /\ (f.user_dn = None /\ f.pc # "ldap119") =>
                       /\ OpNames(f) = <<"connect", "search", "unbind">>
                       /\ \/ f.pc = "except"
                             /\ f.exc.cls = "LDAPUserNameIsMandatoryError"
                          \/ f.pc = "raised_error"
                             /\ f.exc.kind = "InvalidCredentials"
                          \/ Latest(f).result = "Error"
                             /\ Latest(f).err.kind = "InvalidCredentials"

\* A generic invocation that went through all its steps.
C16_Witness ==
    \E r \in RunIds :
        /\ Invoked(req[r], FALSE)
        /\ req[r].pc = "returned"
        /\ OpNames(req[r]) = <<"connect", "search", "unbind", "connect", "bind",
                               "modify_password", "unbind">>

(***************************************************************************)
(* C17.  The domain-controller variant uses the principal                  *)
(* username@domain-suffix and one single connection: bind as that          *)
(* principal with the password passed as old, then the search, then the    *)
(* modify-password extended operation; no search before a successful bind, *)
(* no modify-password before the search.                                   *)
(***************************************************************************)
AdRuns ==
    {<<"connect", "bind", "search", "ad_modify_password", "unbind">>,
     <<"connect", "bind", "search", "unbind">>,
     <<"connect", "bind", "unbind">>}

C17_AdOrder ==
    \A r \in RunIds :
        LET f == req[r]
            ops == f.ops
        IN  Invoked(f, TRUE) =>
                /\ \E run \in AdRuns : IsPrefix(OpNames(f), run)
                /\ f.open \in {0, 1}
                /\ f.pc \in {"ad128", "ad129", "ad130"} => f.open = 1
                /\ Cardinality({k \in 1..Len(ops) : ops[k].op = "connect"}) <= 1
                /\ \A k \in 1..Len(ops) :
                       /\ ops[k].op \in {"connect", "bind", "search"} =>
                              ops[k].user = f.username \o <<"@">> \o AdDomain
                       /\ ops[k].op \in {"connect", "bind"} => ops[k].p1 = f.a_old
                       /\ ops[k].op = "search" => k = 3 /\ ops[2].op = "bind"
                       /\ ops[k].op = "ad_modify_password" =>
                              k = 4 /\ ops[3].op = "search"

\* A domain-controller invocation that went through all its steps.
C17_Witness ==
    \E r \in RunIds :
        /\ Invoked(req[r], TRUE)
        /\ req[r].pc = "returned"
        /\ OpNames(req[r]) = <<"connect", "bind", "search", "ad_modify_password", "unbind">>

(***************************************************************************)
(* C18.  Every adapter invocation with arguments (old, new), apply or      *)
(* reversal, authenticates with old and has the backend replace old by     *)
(* new; the generic variant passes (identity, old, new) to its operation   *)
(* and the domain-controller variant (identity, new, old) to its own; a    *)
(* reversal therefore authenticates with the new password and restores the *)
(* old one in both variants.                                               *)
(***************************************************************************)
C18_ArgumentOrders ==
    \A r \in RunIds :
        LET f == req[r]
            ops == f.ops
        IN  f.trace # <<>> =>
                /\ f.a_old = Latest(f).old /\ f.a_new = Latest(f).new
                /\ \A i \in 1..Len(f.trace) :
                       LET t == f.trace[i]
                       IN  /\ IsApply(t) => t.old = f.old_pass /\ t.new = f.new_pass
                           /\ IsRevert(t) => t.old = f.new_pass /\ t.new = f.old_pass
                /\ \A k \in 1..Len(ops) :
                       /\ ops[k].op = "bind" => ops[k].p1 = f.a_old
                       /\ ops[k].op = "modify_password" =>
                              /\ CONF.type[f.a_key] # "ad"
                              /\ <<ops[k].user, ops[k].p1, ops[k].p2>>
                                     = <<f.user_dn, f.a_old, f.a_new>>
                       /\ ops[k].op = "ad_modify_password" =>
                              /\ CONF.type[f.a_key] = "ad"
                              /\ <<ops[k].user, ops[k].p1, ops[k].p2>>
                                     = <<f.user_dn, f.a_new, f.a_old>>
                /\ f.pc = "returned" => stored[f.a_key] = f.a_new

\* A reversal of a domain-controller backend that returned: it was sent
\* (identity, old password, new password) and the backend holds the old
\* password again.
C18_Witness ==
    \E r \in RunIds :
        LET f == req[r]
        IN  /\ Invoked(f, TRUE)
            /\ f.pc = "returned" /\ f.phase = "revert"
            /\ f.old_pass # f.new_pass
            /\ stored[f.a_key] = f.old_pass
            /\ \E k \in 1..Len(f.ops) :
                   /\ f.ops[k].op = "ad_modify_password"
                   /\ f.ops[k].p1 = f.old_pass /\ f.ops[k].p2 = f.new_pass
            /\ \E i \in 1..Len(f.trace) :
                   IsApply(f.trace[i]) /\ CONF.type[f.trace[i].key] # "ad"

(***************************************************************************)
(* Two concurrent requests.  The server handles each request in a thread   *)
(* of its own; the steps of the two interleave freely.  Both requests are  *)
(* for the same user with the same old password and two different new      *)
(* passwords, and every backend holds the old password.                    *)
(***************************************************************************)
InitConcurrent ==
    \E n \in 1..MaxConcBackends :
        /\ CONF \in {c \in Configs(n) : ~HasChecker(c)}
        /\ req = [r \in RunIds |->
                     IF r = 1 THEN Frame(<<"a", "l">>, PwOld, PwNew, PwNew)
                     ELSE Frame(<<"a", "l">>, PwOld, PwWeak, PwWeak)]
        /\ stored = [key \in BackendKeySet(n) |-> PwOld]
        /\ initial = stored
        /\ LOG = <<>>

SpecConcurrent == InitConcurrent /\ [][Next]_vars

(***************************************************************************)
(* C19.  Of two concurrent runs for the same user over the same backends,  *)
(* with the same old password and two different new passwords, every       *)
(* backend holding the old password at first and changing it only when     *)
(* given the password it holds: at most one run ends in success, whatever  *)
(* the interleaving; and a run reverses only backends of its own changed   *)
(* list, which holds the backends its own apply attempts changed.          *)
(***************************************************************************)
Succeeded(f) == f.pc = "done" /\ f.response.status = "success"

OwnApplied(f, key, before) ==
    \E j \in 1..before :
        /\ IsApply(f.trace[j])
        /\ f.trace[j].key = key
        /\ f.trace[j].result = "ok"

C19_AtMostOneSuccess ==
    /\ Cardinality({r \in RunIds : Succeeded(req[r])}) <= 1
    /\ \A r \in RunIds :
           LET f == req[r]
           IN  /\ \A k \in 1..Len(f.changed) :
                      OwnApplied(f, f.changed[k], Len(f.trace))
               /\ \A i \in 1..Len(f.trace) :
                      IsRevert(f.trace[i]) =>
                          /\ OwnApplied(f, f.trace[i].key, i - 1)
                          /\ \E k \in 1..Len(f.changed) : f.changed[k] = f.trace[i].key

\* Both runs have ended: one changed a backend, failed on the next and
\* reverted its change; the other succeeded on every backend.
C19_Witness ==
    \E r \in RunIds : \E q \in RunIds :
        /\ Succeeded(req[r])
        /\ Len(Applies(req[r])) >= 2
        /\ req[q].pc = "done" /\ req[q].response.status = "error"
        /\ \E i \in 1..Len(req[q].trace) :
               IsRevert(req[q].trace[i]) /\ req[q].trace[i].result = "ok"
        /\ \A key \in DOMAIN stored : stored[key] = req[r].new_pass

(***************************************************************************)
(* C20.  When the configuration has no backend section, change_passwords   *)
(* returns for every username and password pair without one adapter call,  *)
(* and post_index reports the password as changed.                         *)
(***************************************************************************)
C20_NoBackendIsSuccess ==
    \A r \in RunIds :
        LET f == req[r]
        IN  (f.entered /\ BackendKeys(CONF) = <<>>) =>
                /\ f.trace = <<>> /\ f.ops = <<>> /\ f.changed = <<>>
                /\ f.pc \in {"for", "done"}
                /\ f.pc = "for" => ENABLED ForNext(r)
                /\ f.pc = "done" =>
                       /\ f.response = [status |-> "success", msg |-> MsgChanged]
                       /\ \E i \in 1..Len(LOG) : LOG[i].line = 47

\* The success page for a form that did not even name a user, on a server
\* whose configuration has other sections but no backend.
C20_Witness ==
    \E r \in RunIds :
        /\ req[r].entered /\ BackendKeys(CONF) = <<>>
        /\ Len(CONF.sections) >= 2
        /\ req[r].username = None
        /\ req[r].pc = "done"
        /\ req[r].response = [status |-> "success", msg |-> MsgChanged]

====
